---- MODULE Spec2Model ----
(***************************************************************************)
(* Model of py_utils/project_tree/project_tree.py: the ignore-pattern      *)
(* matcher (is_ignored), the stack-based directory walk (walk_tree), the   *)
(* nested-dict builder (build_tree), the renderer (build_tree_string) and  *)
(* the two entry points (main on the command line, generate_tree in the    *)
(* GUI).                                                                   *)
(*                                                                         *)
(* A Python str is a sequence of one-character strings.  The box-drawing   *)
(* characters of the renderer are written by their code points ("U+2514"). *)
(* The host is POSIX: os.sep is "/", fnmatch's normcase is the identity.   *)
(***************************************************************************)
EXTENDS Integers, Sequences, FiniteSets, TLC

\* ---------------------------------------------------------------- bounds
\* Most entries below the root in a generated filesystem.
MaxEntries == 3
\* Deepest nesting of a generated entry below the root.
MaxDepth == 2
\* Longest pattern of the exhaustively enumerated pattern set.
MaxPatLen == 3

\* ----------------------------------------------------------- characters
\* The printable ASCII characters, code points 32..126, in code-point order
\* (the grave accent, code point 96, is written "U+0060").
Ascii ==
  << " ", "!", "\"", "#", "$", "%", "&", "'", "(", ")", "*", "+", ",", "-",
     ".", "/", "0", "1", "2", "3", "4", "5", "6", "7", "8", "9", ":", ";",
     "<", "=", ">", "?", "@", "A", "B", "C", "D", "E", "F", "G", "H", "I",
     "J", "K", "L", "M", "N", "O", "P", "Q", "R", "S", "T", "U", "V", "W",
     "X", "Y", "Z", "[", "\\", "]", "^", "_", "U+0060", "a", "b", "c", "d", "e",
     "f", "g", "h", "i", "j", "k", "l", "m", "n", "o", "p", "q", "r", "s",
     "t", "u", "v", "w", "x", "y", "z", "{", "|", "}", "~" >>

AsciiChars == {Ascii[i] : i \in 1..Len(Ascii)}

\* ord(c) of a printable ASCII character.
Ord == [c \in AsciiChars |-> 31 + (CHOOSE i \in 1..Len(Ascii) : Ascii[i] = c)]

\* str.lower() on one character: A..Z map to a..z, all else is unchanged.
LowerChar(c) ==
  IF c \in AsciiChars /\ Ord[c] >= 65 /\ Ord[c] <= 90
    THEN Ascii[Ord[c] + 32 - 31] ELSE c

\* str.lower()
Lower(s) == [i \in 1..Len(s) |-> LowerChar(s[i])]

\* Python's s < t on str: lexicographic by code point, a proper prefix first.
StrLess(s, t) ==
  LET less[i \in 1..Len(s) + 1] ==
        IF i > Len(t) THEN FALSE
        ELSE IF i > Len(s) THEN TRUE
        ELSE IF s[i] # t[i] THEN Ord[s[i]] < Ord[t[i]]
        ELSE less[i + 1]
  IN less[1]

\* ------------------------------------------------------ string helpers
\* str.replace(old, new) for one-character old and new.
Replace(s, old, new) == [i \in 1..Len(s) |-> IF s[i] = old THEN new ELSE s[i]]

\* str.rstrip(c): every trailing c is removed.
RStrip(s, c) ==
  LET keep == { k \in 0..Len(s) : k = 0 \/ s[k] # c }
  IN SubSeq(s, 1, CHOOSE k \in keep : \A m \in keep : m <= k)

\* str.lstrip(c): every leading c is removed.
LStrip(s, c) ==
  LET keep == { k \in 1..Len(s) + 1 : k = Len(s) + 1 \/ s[k] # c }
  IN SubSeq(s, CHOOSE k \in keep : \A m \in keep : k <= m, Len(s))

EndsWith(s, c) == s # << >> /\ s[Len(s)] = c
StartsWith(s, c) == s # << >> /\ s[1] = c

\* sep.join(parts)
Join(parts, sep) ==
  LET from[k \in 1..Len(parts) + 1] ==
        IF k > Len(parts) THEN << >>
        ELSE IF k = Len(parts) THEN parts[k]
        ELSE parts[k] \o sep \o from[k + 1]
  IN from[1]

os_sep == "/"

\* os.path.basename on a "/"-separated path: what follows the last "/".
basename(p) ==
  LET slashes == {i \in 1..Len(p) : p[i] = "/"}
      last == IF slashes = {} THEN 0
              ELSE CHOOSE i \in slashes : \A j \in slashes : j <= i
  IN SubSeq(p, last + 1, Len(p))

\* -------------------------------------------------------------- fnmatch
\* fnmatch.translate's scan for the "]" that closes the class opened by the
\* "[" at pat[i]: 0 when there is none (the "[" is then a literal).
ClassEnd(pat, i) ==
  LET n == Len(pat)
      j0 == i + 1
      j1 == IF j0 <= n /\ pat[j0] = "!" THEN j0 + 1 ELSE j0
      j2 == IF j1 <= n /\ pat[j1] = "]" THEN j1 + 1 ELSE j1
      closing == {k \in j2..n : pat[k] = "]"}
  IN IF closing = {} THEN 0
     ELSE CHOOSE k \in closing : \A m \in closing : k <= m

\* Whether character c is in the class whose text between the brackets is
\* stuff (no "-" ranges: "-" is outside the modelled pattern alphabet).
InClass(c, stuff) ==
  IF stuff[1] = "!"
    THEN \A i \in 2..Len(stuff) : stuff[i] # c
    ELSE \E i \in 1..Len(stuff) : stuff[i] = c

\* fnmatch.fnmatchcase(s, pat): "*" matches any run of characters ("/"
\* included), "?" any one character, "[seq]" / "[!seq]" one character in /
\* not in seq, anything else itself; the whole of s must match.
\* m[i, j]: s from its i-th character on matches pat from its j-th on.
fnmatchcase(s, pat) ==
  LET m[i \in 1..Len(s) + 1, j \in 1..Len(pat) + 1] ==
        IF j > Len(pat) THEN i > Len(s)
        ELSE IF pat[j] = "*" THEN
          \/ m[i, j + 1]
          \/ i <= Len(s) /\ m[i + 1, j]
        ELSE IF pat[j] = "?" THEN
          i <= Len(s) /\ m[i + 1, j + 1]
        ELSE IF pat[j] = "[" /\ ClassEnd(pat, j) # 0 THEN
          /\ i <= Len(s)
          /\ InClass(s[i], SubSeq(pat, j + 1, ClassEnd(pat, j) - 1))
          /\ m[i + 1, ClassEnd(pat, j) + 1]
        ELSE
          i <= Len(s) /\ s[i] = pat[j] /\ m[i + 1, j + 1]
  IN m[1, 1]

\* os.path.normcase on POSIX
normcase(s) == s

\* fnmatch.fnmatch(name, pat)
fnmatch(name, pat) == fnmatchcase(normcase(name), normcase(pat))

\* ----------------------------------------------------------- is_ignored
\* A faulty variant of PatternMatches: a rooted pattern is matched like an unrooted
\* one, against the base name too.
PatternMatchesRootedByName(rel_path_unix, name, p) ==
  LET p0 == Replace(p, "\\", "/")
      p_unix == IF EndsWith(p0, "/") THEN RStrip(p0, "/") ELSE p0
      pat == LStrip(p_unix, "/")
  IN fnmatch(rel_path_unix, pat) \/ fnmatch(name, pat)

\* The body of the loop of is_ignored for one pattern p: TRUE when the
\* loop returns True at p.
PatternMatches(rel_path_unix, name, p) ==
  LET p0 == Replace(p, "\\", "/")
      p_unix == IF EndsWith(p0, "/") THEN RStrip(p0, "/") ELSE p0
  IN IF StartsWith(p_unix, "/")
       THEN fnmatch(rel_path_unix, LStrip(p_unix, "/"))
       ELSE fnmatch(rel_path_unix, p_unix) \/ fnmatch(name, p_unix)

\* is_ignored(rel_path, patterns); loop[i] is the for loop from pattern i
\* on: True at the first pattern that matches, False after the last.
is_ignored(rel_path, patterns) ==
  LET rel_path_unix == Replace(rel_path, os_sep, "/")
      name == basename(rel_path_unix)
      loop[i \in 1..Len(patterns) + 1] ==
        IF i > Len(patterns) THEN FALSE
        ELSE IF PatternMatches(rel_path_unix, name, patterns[i]) THEN TRUE
        ELSE loop[i + 1]
  IN loop[1]

\* Python's str.strip(): leading and trailing whitespace removed.
Whitespace == {" ", "\t", "\n", "\r"}

strip(s) ==
  LET ink == { k \in 1..Len(s) : s[k] \notin Whitespace }
  IN IF ink = {} THEN << >>
     ELSE SubSeq(s, CHOOSE k \in ink : \A m \in ink : k <= m,
                    CHOOSE k \in ink : \A m \in ink : m <= k)

\* str.splitlines() for the line break "\n": no empty last line after a
\* final "\n".
\* from[k]: the lines of s from its k-th character on.
splitlines(s) ==
  LET from[k \in 1..Len(s) + 1] ==
        IF k > Len(s) THEN << >>
        ELSE
          LET breaks == { i \in k..Len(s) : s[i] = "\n" } IN
          IF breaks = {} THEN << SubSeq(s, k, Len(s)) >>
          ELSE << SubSeq(s, k, (CHOOSE i \in breaks : \A j \in breaks : i <= j) - 1) >>
                 \o from[(CHOOSE i \in breaks : \A j \in breaks : i <= j) + 1]
  IN from[1]

\* The loop shared by load_ignore_patterns and generate_tree: each line is
\* stripped; blank lines and lines starting with "#" are dropped.
PatternLines(lines) ==
  LET stripped == [i \in 1..Len(lines) |-> strip(lines[i])]
  IN SelectSeq(stripped, LAMBDA line : ~(line = << >> \/ StartsWith(line, "#")))

\* An ignore file argument: NoFile (None), MissingFile (a path that does
\* not exist) or the text of an existing file.
NoFile == << "None" >>
MissingFile == << "ENOENT" >>

\* load_ignore_patterns(ignore_file): the pattern list it returns.
load_ignore_patterns(ignore_file) ==
  IF ignore_file = NoFile THEN << >>
  ELSE IF ignore_file = MissingFile THEN << >>
  ELSE PatternLines(splitlines(ignore_file))

\* ----------------------------------------------------------- filesystem
\* A path below the root is the sequence of its names (Path.parts of the
\* path relative to the root); the root is << >>.  A filesystem is
\* [dirs, files]: the directories and the files below the root.
Parent(p) == SubSeq(p, 1, Len(p) - 1)
Name(p) == p[Len(p)]
Entries(f) == f.dirs \cup f.files
ChildrenOf(f, p) == {q \in Entries(f) : Len(q) = Len(p) + 1 /\ Parent(q) = p}
IsPrefix(p, q) == Len(p) <= Len(q) /\ SubSeq(q, 1, Len(p)) = p
\* The prefixes of p below the root, p included.
Prefixes(p) == {SubSeq(p, 1, k) : k \in 1..Len(p)}

\* str(path.relative_to(root)), "." for the root itself.
RelStr(p) == IF p = << >> THEN << "." >> ELSE Join(p, << os_sep >>)

\* ------------------------------------------------------------- sorting
\* Python's tuple order on keys (bool, str): False before True, then the
\* strings by code point.
KeyLess(k1, k2) ==
  \/ k1[1] = FALSE /\ k2[1] = TRUE
  \/ k1[1] = k2[1] /\ StrLess(k1[2], k2[2])

\* Pair j comes before pair i in sorted(..., reverse=reverse).  Python's
\* sort is stable, also under reverse=True: pairs of equal keys keep their
\* input order.
SortsBefore(pairs, reverse, j, i) ==
  LET first(x, y) == IF reverse THEN KeyLess(pairs[y][1], pairs[x][1])
                                ELSE KeyLess(pairs[x][1], pairs[y][1])
  IN first(j, i) \/ (~first(i, j) /\ j < i)

\* sorted(items, key=..., reverse=reverse) of pairs <<key, item>>: the
\* items by key.  ps is the value of pairs and place[i] the position of
\* pair i in the result.
sorted(pairs, reverse) ==
  CHOOSE result \in
    UNION { { [r \in 1..Len(ps) |-> ps[CHOOSE i \in 1..Len(ps) : place[i] = r][2]] :
                place \in { [i \in 1..Len(ps) |->
                              1 + Cardinality({ j \in 1..Len(ps) :
                                                  SortsBefore(ps, reverse, j, i) })] } } :
            ps \in { pairs } } : TRUE

\* The orders in which iterdir() may list the set S.
Orders(S) ==
  {o \in [1..Cardinality(S) -> S] : \A i, j \in 1..Cardinality(S) : o[i] = o[j] => i = j}

\* ---------------------------------------------------------------- state
VARIABLES
  entry,          \* "cli" (main with arguments) or "gui" (generate_tree)
  root_kind,      \* what the root path names: "dir", "file", "missing", or
                  \* "empty" (the GUI's root box is blank)
  fs,             \* the filesystem below the root
  unreadable,     \* the directories whose iterdir() raises PermissionError
  ignore_file,    \* the ignore file argument
  extra_text,     \* the GUI's extra-patterns box (patterns_text)
  exclude_paths,  \* the GUI's exclude list: absolute paths, as Path.parts
  patterns,       \* the pattern list handed to build_tree_string
  stack,          \* walk_tree's stack of <<path, depth>>
  yielded,        \* what walk_tree has yielded: <<path, is_dir, depth>>
  listed,         \* the directories walk_tree has called iterdir() on
  tree,           \* build_tree's nested dict: its paths in insertion order
  lines,          \* build_tree_string's lines
  tree_str,       \* build_tree_string's return value
  printed,        \* the tree path each line after the first was printed for
  out,            \* standard output (cli) / what was put in output_text (gui)
  report,         \* what was reported (standard error, message boxes), in order
  exit_code,      \* << the process exit status >>, NotExited while it runs
  pc,             \* "start", "walk" or "done"
  m_path,         \* is_ignored's rel_path argument
  m_patterns,     \* is_ignored's patterns argument
  m_result        \* << is_ignored's return value >>, NotCalled before the call

inputs == <<entry, root_kind, fs, unreadable, ignore_file, extra_text, exclude_paths>>
walk == <<patterns, stack, yielded, listed, tree>>
outcome == <<lines, tree_str, printed, out, report, exit_code>>
matcher == <<m_path, m_patterns, m_result>>
vars == <<inputs, walk, outcome, pc, matcher>>

NoOutput == << "NoOutput" >>
NotExited == << >>
NotCalled == << >>

\* The resolved root, as Path.parts below "/".
root_parts == << << "r" >> >>

\* str() of an absolute path
AbsStr(parts) == << os_sep >> \o Join(parts, << os_sep >>)

\* ------------------------------------------------------------ walk_tree
\* Path.is_dir() of a path below (or at) the root
is_dir(p) == IF p = << >> THEN root_kind = "dir" ELSE p \in fs.dirs

\* The sort key of walk_tree: (not p.is_dir(), p.name.lower())
ItemKey(p) == << ~is_dir(p), Lower(Name(p)) >>

\* A faulty variant of SortItems: reverse=True is dropped.
SortItemsForward(order) ==
  sorted([i \in 1..Len(order) |-> << ItemKey(order[i]), order[i] >>], FALSE)

\* sorted(current.iterdir(), key=..., reverse=True), iterdir() listing the
\* children in the order `order`
SortItems(order) ==
  sorted([i \in 1..Len(order) |-> << ItemKey(order[i]), order[i] >>], TRUE)

\* A faulty variant of Ignored: the name is passed instead of the relative path.
IgnoredByName(p) == is_ignored(IF p = << >> THEN << "." >> ELSE Name(p), patterns)

\* walk_tree's two calls of is_ignored, on the popped path and on each
\* child: is_ignored(str(path.relative_to(root)), patterns)
Ignored(p) == is_ignored(RelStr(p), patterns)

\* A faulty variant of SkipCurrent: the root is filtered like any other path.
SkipCurrentRootToo(current, depth) == Ignored(current)

\* walk_tree's test after the pop: the root (depth 0) is never skipped.
SkipCurrent(current, depth) == depth # 0 /\ Ignored(current)

\* A faulty variant of PushItems: the loop stops at the first ignored item
\* (break for continue).
PushItemsBreak(stk, items, depth) ==
  CHOOSE pushed \in
    UNION { { stk \o [i \in 1..first - 1 |-> << its[i], depth + 1 >>] :
                first \in { i \in 1..Len(its) + 1 :
                              /\ i = Len(its) + 1 \/ Ignored(its[i])
                              /\ \A j \in 1..i - 1 : ~Ignored(its[j]) } } :
            its \in { items } } : TRUE

\* The for loop of walk_tree over the sorted items: every item that is not
\* ignored is pushed, in order.
PushItems(stk, items, depth) ==
  LET kept == SelectSeq(items, LAMBDA item : ~Ignored(item))
  IN stk \o [i \in 1..Len(kept) |-> << kept[i], depth + 1 >>]

\* ----------------------------------------------------------- build_tree
\* node = node.setdefault(part, {}) along parts: each prefix of parts that
\* the tree does not hold yet is added, the shorter first.
SetDefaults(t, parts) ==
  LET prefixes == [k \in 1..Len(parts) |-> SubSeq(parts, 1, k)]
  IN t \o SelectSeq(prefixes, LAMBDA pre : ~\E i \in 1..Len(t) : t[i] = pre)

\* The body of build_tree's loop for one yielded path
BuildTreeStep(t, path) == IF path = << >> THEN t ELSE SetDefaults(t, path)

\* The children dict of a node of the tree, in insertion order
TreeChildren(t, node) ==
  SelectSeq(t, LAMBDA q : Len(q) = Len(node) + 1 /\ Parent(q) = node)

\* ---------------------------------------------------- build_tree_string
ConnLast == << "U+2514", "U+2500", "U+2500", " " >>
ConnMid == << "U+251C", "U+2500", "U+2500", " " >>
PrefixBlank == << " ", " ", " ", " " >>
PrefixBar == << "U+2502", " ", " ", " " >>
PyNone == << "None" >>

\* The sort key of _collect: (len(kv[1]) == 0, kv[0].lower())
RenderKey(t, child) == << TreeChildren(t, child) = << >>, Lower(Name(child)) >>

\* sorted(node.items(), key=...)
RenderEntries(t, node) ==
  LET items == TreeChildren(t, node)
  IN sorted([i \in 1..Len(items) |-> << RenderKey(t, items[i]), items[i] >>], FALSE)

\* connector of _collect
Connector(is_last) == IF is_last THEN ConnLast ELSE ConnMid

\* A faulty variant of PrefixLocal: the bar is drawn under a last entry too.
PrefixLocalAlwaysBar(prefix, is_last) == prefix \o PrefixBar

\* prefix_local of a named node
PrefixLocal(prefix, is_last) ==
  prefix \o (IF is_last THEN PrefixBlank ELSE PrefixBar)

\* _collect(node, prefix, is_last, name): the <<path, line>> pairs it
\* appends to lines, in order.
\* from[i] is the for loop over the sorted entries, from entry i on.
RECURSIVE _collect(_, _, _, _, _)
_collect(t, node, prefix, is_last, name) ==
  LET connector == Connector(is_last)
      own == IF name # PyNone
               THEN << << node, prefix \o connector \o name >> >>
               ELSE << >>
      prefix_local == IF name # PyNone THEN PrefixLocal(prefix, is_last)
                                       ELSE prefix
      entries == RenderEntries(t, node)
      from[i \in 1..Len(entries) + 1] ==
        IF i > Len(entries) THEN << >>
        ELSE _collect(t, entries[i], prefix_local, i = Len(entries), Name(entries[i]))
               \o from[i + 1]
  IN own \o from[1]

\* The <<path, line>> pairs of build_tree_string's lines after the first.
CollectAll(t) == _collect(t, << >>, << >>, TRUE, << "." >>)

\* --------------------------------------------------------------- inputs
\* The names of the generated filesystems: two that differ only in case,
\* and an upper-case name that sorts before "a" by code point and after it
\* once lowercased.
NameSet == { << "a" >>, << "A" >>, << "B" >> }

\* The prefix-closed sets of at most k paths, none deeper than MaxDepth.
RECURSIVE TreesUpTo(_)
TreesUpTo(k) ==
  IF k = 0 THEN { {} }
  ELSE LET prev == TreesUpTo(k - 1)
       IN prev \cup
          UNION { { t \cup { Append(p, n) } :
                      p \in { q \in t \cup { << >> } : Len(q) < MaxDepth },
                      n \in NameSet } :
                  t \in { u \in prev : Cardinality(u) = k - 1 } }

Leaves(t) == { p \in t : ~\E q \in t : Parent(q) = p }

\* Every filesystem of at most MaxEntries entries over NameSet: a path with
\* children is a directory, a path without is a file or an empty directory.
GeneratedFS ==
  UNION { { [dirs |-> (t \ Leaves(t)) \cup D, files |-> Leaves(t) \ D] :
              D \in SUBSET Leaves(t) } :
          t \in TreesUpTo(MaxEntries) }

n_src == << "s", "r", "c" >>
n_main_py == << "m", "a", "i", "n", ".", "p", "y" >>
n_README_md == << "R", "E", "A", "D", "M", "E", ".", "m", "d" >>
n_a_txt == << "a", ".", "t", "x", "t" >>
n_b_txt == << "b", ".", "t", "x", "t" >>
n_build == << "b", "u", "i", "l", "d" >>

\* A root holding README.md and src/main.py
ReadmeFS == [dirs |-> { << n_src >> },
             files |-> { << n_README_md >>, << n_src, n_main_py >> }]

\* A root holding the files a.txt and b.txt and the empty directories A, B
SiblingsFS == [dirs |-> { << << "A" >> >>, << << "B" >> >> },
               files |-> { << n_a_txt >>, << n_b_txt >> }]

\* A root holding build/ and src/build/
BuildFS == [dirs |-> { << n_build >>, << n_src >>, << n_src, n_build >> },
            files |-> { }]

EmptyFS == [dirs |-> { }, files |-> { }]

AllFS == GeneratedFS \cup { ReadmeFS, SiblingsFS, BuildFS }

\* Ignore files: a comment, a blank line and a padded name; a rooted name;
\* everything; the root's own "."; a full relative path; a directory-style
\* name; two patterns; the rooted "/build".
IgnoreFileTexts ==
  { << "#", " ", "c", "\n", "\n", " ", "a", " ", "\n" >>,
    << "/", "a", "\n" >>,
    << "*", "\n" >>,
    << ".", "\n" >>,
    << "B", "/", "a", "\n" >>,
    << "B", "/", "\n" >>,
    << "A", "\n", "/", "B", "/", "a" >>,
    << "/" >> \o n_build \o << "\n" >> }

CliIgnoreFiles == { NoFile, MissingFile } \cup IgnoreFileTexts

GuiIgnoreFiles ==
  { NoFile, MissingFile, << "#", " ", "c", "\n", "\n", " ", "a", " ", "\n" >> }

\* The GUI's extra-patterns box: empty (Tk's text ends in a newline), or
\* one pattern.
ExtraTexts == { << "\n" >>, << "B", "\n" >> }

\* The GUI's exclude list: nothing, one entry of the filesystem, the root
\* itself, or a path that is not under the root.
ExcludeLists(f) ==
  { << >>, << root_parts >>, << << << "o" >>, << "a" >> >> >> }
    \cup { << root_parts \o p >> : p \in Entries(f) }

\* At most one directory (the root included) is unreadable.
UnreadableSets(f) == { {} } \cup { { d } : d \in f.dirs \cup { << >> } }

IdleMatcher ==
  /\ m_path = << >>
  /\ m_patterns = << >>
  /\ m_result = NotCalled

Init ==
  /\ entry \in { "cli", "gui" }
  /\ root_kind \in { "dir", "file", "missing", "empty" }
  /\ root_kind = "empty" => entry = "gui"
  /\ fs \in IF root_kind = "dir" THEN AllFS ELSE { EmptyFS }
  /\ unreadable \in IF root_kind = "dir" THEN UnreadableSets(fs) ELSE { {} }
  /\ ignore_file \in IF entry = "cli" THEN CliIgnoreFiles ELSE GuiIgnoreFiles
  /\ extra_text \in IF entry = "cli" THEN { << >> } ELSE ExtraTexts
  /\ exclude_paths \in IF entry = "cli" THEN { << >> } ELSE ExcludeLists(fs)
  /\ patterns = << >>
  /\ stack = << >>
  /\ yielded = << >>
  /\ listed = {}
  /\ tree = << >>
  /\ lines = << >>
  /\ tree_str = << >>
  /\ printed = << >>
  /\ out = NoOutput
  /\ report = << >>
  /\ exit_code = NotExited
  /\ pc = "start"
  /\ IdleMatcher

\* --------------------------------------------------------- entry points
\* The first state of build_tree_string(root, patterns): walk_tree's stack
\* holds the root at depth 0.
StartWalk(pats) ==
  /\ patterns' = pats
  /\ stack' = << << << >>, 0 >> >>
  /\ pc' = "walk"
  /\ UNCHANGED << yielded, listed, tree, lines, tree_str, printed, out, exit_code >>

\* A fatal report: nothing is walked, nothing is printed.
Fail(message, code) ==
  /\ report' = Append(report, message)
  /\ exit_code' = code
  /\ pc' = "done"
  /\ UNCHANGED << walk, lines, tree_str, printed, out >>

\* main's check of the root: not root.exists()
CliRootRejected == root_kind = "missing"

\* main(), with command-line arguments: up to the call of print_tree
Main ==
  /\ pc = "start"
  /\ entry = "cli"
  /\ IF CliRootRejected
       THEN Fail("error: root does not exist", << 1 >>)
       ELSE /\ report' = IF ignore_file = MissingFile
                           THEN Append(report, "warning: ignore file does not exist")
                           ELSE report
            /\ StartWalk(load_ignore_patterns(ignore_file))
  /\ UNCHANGED << inputs, matcher >>

\* The loop of generate_tree over exclude_paths, from path i on
\* after[i] is the pattern list after the first i exclude paths: a path
\* that is not under the root is passed over, the others add their
\* relative path, "/"-separated, unless the list holds it already.
AddExcludes(pats, excl) ==
  LET after[i \in 0..Len(excl)] ==
        IF i = 0 THEN pats
        ELSE IF ~IsPrefix(root_parts, excl[i]) THEN after[i - 1]
        ELSE
          LET rel == SubSeq(excl[i], Len(root_parts) + 1, Len(excl[i]))
              rel_str == Replace(RelStr(rel), os_sep, "/")
          IN IF \E k \in 1..Len(after[i - 1]) : after[i - 1][k] = rel_str
               THEN after[i - 1] ELSE Append(after[i - 1], rel_str)
  IN after[Len(excl)]

\* The pattern list generate_tree builds: the ignore file's patterns, the
\* extra patterns, the exclude paths.
GuiPatterns ==
  AddExcludes(load_ignore_patterns(ignore_file)
                \o PatternLines(splitlines(extra_text)),
              exclude_paths)

\* generate_tree's check of the root: not exists() or not is_dir()
GuiRootRejected == root_kind # "dir"

\* generate_tree(), up to the call of build_tree_string
GenerateTree ==
  /\ pc = "start"
  /\ entry = "gui"
  /\ IF root_kind = "empty"
       THEN Fail("showerror: no root given", NotExited)
     ELSE IF GuiRootRejected
       THEN Fail("showerror: root is not a directory", NotExited)
     ELSE IF ignore_file = MissingFile
       THEN Fail("showerror: ignore file does not exist", NotExited)
     ELSE report' = report /\ StartWalk(GuiPatterns)
  /\ UNCHANGED << inputs, matcher >>

\* ------------------------------------------- the walk and the rendering
\* iterdir() raised inside walk_tree: nothing catches it below the entry
\* point.  The command line dies with a traceback and status 1; the GUI
\* shows the error and returns.
Raise ==
  /\ report' = Append(report, IF entry = "cli" THEN "Traceback: PermissionError"
                                               ELSE "showerror: PermissionError")
  /\ exit_code' = IF entry = "cli" THEN << 1 >> ELSE NotExited
  /\ pc' = "done"
  /\ UNCHANGED << listed, lines, tree_str, printed, out >>

\* One iteration of walk_tree's while loop, with the iteration of
\* build_tree's for loop that consumes what it yields.
WalkStep ==
  /\ pc = "walk"
  /\ stack # << >>
  /\ LET top == stack[Len(stack)]
         current == top[1]
         depth == top[2]
         popped == SubSeq(stack, 1, Len(stack) - 1)
     IN IF SkipCurrent(current, depth)
          THEN /\ stack' = popped
               /\ UNCHANGED << yielded, listed, tree, outcome, pc >>
          ELSE /\ yielded' = Append(yielded, << current, is_dir(current), depth >>)
               /\ tree' = BuildTreeStep(tree, current)
               /\ IF ~is_dir(current)
                    THEN /\ stack' = popped
                         /\ UNCHANGED << listed, outcome, pc >>
                  ELSE IF current \in unreadable
                    THEN /\ stack' = popped
                         /\ Raise
                  ELSE \E order \in Orders(ChildrenOf(fs, current)) :
                         /\ stack' = PushItems(popped, SortItems(order), depth)
                         /\ listed' = listed \cup { current }
                         /\ UNCHANGED << outcome, pc >>
  /\ UNCHANGED << inputs, patterns, matcher >>

\* walk_tree's stack is empty: build_tree returns, build_tree_string
\* renders the tree and the entry point shows the string.
Finish ==
  /\ pc = "walk"
  /\ stack = << >>
  /\ \E pairs \in { CollectAll(tree) } :
       \E joined \in { Join(<< AbsStr(root_parts) >>
                              \o [i \in 1..Len(pairs) |-> pairs[i][2]], << "\n" >>) } :
         /\ lines' = << AbsStr(root_parts) >> \o [i \in 1..Len(pairs) |-> pairs[i][2]]
         /\ tree_str' = joined
         /\ printed' = [i \in 1..Len(pairs) |-> pairs[i][1]]
         /\ out' = IF entry = "cli" THEN joined \o << "\n" >> ELSE joined
  /\ exit_code' = IF entry = "cli" THEN << 0 >> ELSE NotExited
  /\ pc' = "done"
  /\ UNCHANGED << inputs, walk, report, matcher >>

Next == Main \/ GenerateTree \/ WalkStep \/ Finish

Spec == Init /\ [][Next]_vars

\* ------------------------------------------------- is_ignored, by itself
\* The characters of the enumerated patterns: two literals, the separator,
\* the backslash and the two wildcards.
PatternChars == { "a", "b", "/", "\\", "*", "?" }

\* Every non-empty pattern of at most MaxPatLen characters.
EnumeratedPatterns == UNION { [1..n -> PatternChars] : n \in 1..MaxPatLen }

p_rooted_build == << "/" >> \o n_build
p_star_log == << "*", ".", "l", "o", "g" >>
s_app_log == << "a", "p", "p", ".", "l", "o", "g" >>
s_logs_app_log == << "l", "o", "g", "s", "/" >> \o s_app_log
s_src_build == n_src \o << "/" >> \o n_build

\* Patterns with character classes, and the two patterns of the examples.
ClassPatterns ==
  { << "[", "a", "b", "]" >>, << "[", "!", "a", "]" >>,
    << "/", "[", "a", "b", "]" >>, << "[", "a" >>, << "[", "]", "a", "]" >>,
    << "a", "/", "[", "!", "b", "]" >> }

MatchPatterns == EnumeratedPatterns \cup ClassPatterns \cup { p_rooted_build, p_star_log }

\* The pattern lists: none, one pattern, or a pattern between two others.
MatchPatternLists ==
  { << >> }
    \cup { << p >> : p \in MatchPatterns }
    \cup { << << "b" >>, p >> : p \in MatchPatterns }
    \cup { << p, << "/", "b" >> >> : p \in MatchPatterns }

MatchNames == { << "a" >>, << "b" >>, << "a", "b" >> }

\* The relative paths: up to MaxDepth names joined by "/", the root's ".",
\* and the paths of the examples.
MatchPaths ==
  { Join(parts, << "/" >>) :
      parts \in UNION { [1..n -> MatchNames] : n \in 1..MaxDepth } }
    \cup { << "." >>,
           n_build,
           s_src_build,
           s_app_log,
           s_logs_app_log }

MatchInit ==
  /\ entry = "cli"
  /\ root_kind = "dir"
  /\ fs = EmptyFS
  /\ unreadable = {}
  /\ ignore_file = NoFile
  /\ extra_text = << >>
  /\ exclude_paths = << >>
  /\ patterns = << >>
  /\ stack = << >>
  /\ yielded = << >>
  /\ listed = {}
  /\ tree = << >>
  /\ lines = << >>
  /\ tree_str = << >>
  /\ printed = << >>
  /\ out = NoOutput
  /\ report = << >>
  /\ exit_code = NotExited
  /\ pc = "match"
  /\ m_path \in MatchPaths
  /\ m_patterns \in MatchPatternLists
  /\ m_result = NotCalled

\* One call of is_ignored(m_path, m_patterns)
CallIsIgnored ==
  /\ pc = "match"
  /\ m_result = NotCalled
  /\ m_result' = << is_ignored(m_path, m_patterns) >>
  /\ UNCHANGED << inputs, walk, outcome, pc, m_path, m_patterns >>

MatchNext == CallIsIgnored

SpecMatch == MatchInit /\ [][MatchNext]_vars

\* The last "/"-separated segment of a path
LastSegment(path) ==
  CHOOSE seg \in { SubSeq(path, k, Len(path)) : k \in 1..Len(path) + 1 } :
    /\ \A i \in 1..Len(seg) : seg[i] # "/"
    /\ Len(seg) = Len(path) \/ path[Len(path) - Len(seg)] = "/"

\* p with one trailing "/" removed, if it has one
WithoutTrailingSlash(p) ==
  IF p # << >> /\ p[Len(p)] = "/" THEN SubSeq(p, 1, Len(p) - 1) ELSE p

\* The rule of the claim for one pattern, read to the letter: one trailing
\* "/" is stripped, and a rooted pattern loses its one leading "/".
RuleAsWritten(path, p) ==
  LET q == WithoutTrailingSlash(p) IN
  IF q # << >> /\ q[1] = "/"
    THEN fnmatch(path, Tail(q))
    ELSE fnmatch(path, q) \/ fnmatch(LastSegment(path), q)

\* q without its trailing "/"s
RECURSIVE WithoutTrailingSlashes(_)
WithoutTrailingSlashes(q) ==
  IF q # << >> /\ q[Len(q)] = "/"
    THEN WithoutTrailingSlashes(SubSeq(q, 1, Len(q) - 1)) ELSE q

\* p with each backslash written as "/", without its trailing "/"s
Normalised(p) ==
  WithoutTrailingSlashes([i \in 1..Len(p) |-> IF p[i] = "\\" THEN "/" ELSE p[i]])

\* q without its leading "/"s
RECURSIVE Unrooted(_)
Unrooted(q) == IF q # << >> /\ q[1] = "/" THEN Unrooted(Tail(q)) ELSE q

\* The rule with every backslash of the pattern read as "/", every
\* trailing "/" stripped and every leading "/" of a rooted pattern dropped.
RuleAmended(path, p) ==
  LET q == Normalised(p) IN
  IF q # << >> /\ q[1] = "/"
    THEN fnmatch(path, Unrooted(q))
    ELSE fnmatch(path, q) \/ fnmatch(LastSegment(path), q)

Called == pc = "match" /\ m_result # NotCalled

\* C2, as stated: is_ignored returns true exactly when some pattern, after
\* its trailing "/" is stripped, matches by the rule: a pattern starting
\* with "/" globs, without that "/", against the full relative path only;
\* any other pattern globs against the full path or its last segment.
C2_AsWritten ==
  Called =>
    m_result[1] = (\E i \in 1..Len(m_patterns) : RuleAsWritten(m_path, m_patterns[i]))

\* C2, amended: is_ignored returns true exactly when some pattern matches
\* by the rule once its backslashes are read as "/" and all its trailing
\* "/" are stripped, a rooted pattern globbing without all its leading
\* "/"; "/build" excludes build but not src/build, "*.log" excludes
\* app.log and logs/app.log, and no pattern gives false.
C2_IsIgnoredRule ==
  Called =>
    /\ m_result[1] = (\E i \in 1..Len(m_patterns) : RuleAmended(m_path, m_patterns[i]))
    /\ m_patterns = << p_rooted_build >> => m_result[1] = (m_path = n_build)
    /\ (m_patterns = << p_rooted_build >> /\ m_path = s_src_build) => ~m_result[1]
    /\ (m_patterns = << p_star_log >> /\ m_path = s_app_log) => m_result[1]
    /\ (m_patterns = << p_star_log >> /\ m_path = s_logs_app_log) => m_result[1]
    /\ m_patterns = << >> => ~m_result[1]

\* is_ignored("src/build", ["/build"]) has returned False
C2_Witness ==
  /\ Called
  /\ m_path = s_src_build
  /\ m_patterns = << p_rooted_build >>
  /\ m_result = << FALSE >>

\* ------------------------------------------------------ the whole run
\* The runs checked for termination: those of Init in which the GUI's
\* extra-patterns box and exclude list are empty.
FairInit ==
  /\ Init
  /\ entry = "gui" => (extra_text = << "\n" >> /\ exclude_paths = << >>)

\* Under weak fairness the program keeps taking steps while it can: it is
\* single-threaded and nothing in it waits.
FairSpec == FairInit /\ [][Next]_vars /\ WF_vars(Next)

\* The paths of a sequence of paths
PathSet(t) == { t[i] : i \in 1..Len(t) }

\* An entry survives when neither it nor any ancestor below the root is
\* ignored.
SurvivingUnder(p, pats) == \A q \in Prefixes(p) : ~is_ignored(RelStr(q), pats)
Surviving(p) == SurvivingUnder(p, patterns)
ProperPrefixes(p) == { SubSeq(p, 1, k) : k \in 1..Len(p) - 1 }

\* build_tree_string returned and its string was shown.
Produced == pc = "done" /\ out # NoOutput

\* The path of the i-th yield
Y(i) == yielded[i][1]

\* C1: every path of the built tree is an entry of the filesystem that is
\* not ignored, and has no ignored ancestor below the root; an ignored
\* directory is never listed, and none of its descendants is ever pushed on
\* the stack, yielded or put in the tree.
C1_Pruning ==
  pc \in { "walk", "done" } =>
    /\ \A i \in 1..Len(tree) : tree[i] \in Entries(fs) /\ Surviving(tree[i])
    /\ \A i \in 1..Len(yielded) : Y(i) = << >> \/ (Y(i) \in Entries(fs) /\ Surviving(Y(i)))
    /\ \A i \in 1..Len(stack) :
         \A q \in ProperPrefixes(stack[i][1]) : ~is_ignored(RelStr(q), patterns)
    /\ \A d \in listed : d = << >> \/ Surviving(d)

\* A finished run in which an ignored directory holds an entry that no
\* pattern matches, and something else survived.
C1_Witness ==
  /\ Produced
  /\ tree # << >>
  /\ \E d \in fs.dirs :
       /\ is_ignored(RelStr(d), patterns)
       /\ \E e \in Entries(fs) :
            e # d /\ IsPrefix(d, e) /\ ~is_ignored(RelStr(e), patterns)

\* The two lines every output starts with
RootLine == AbsStr(root_parts)
DotLine == << "U+2514", "U+2500", "U+2500", " ", "." >>

\* C7: whatever the patterns, the root is yielded first and, when it is a
\* readable directory, listed; the output starts with the root's path and
\* the "." line; under the unrooted pattern "*" the tree is empty and the
\* output is those two lines alone, as for an empty root with no patterns.
C7_RootExempt ==
  /\ (pc = "done" /\ report = << >> /\ root_kind = "dir") =>
       /\ yielded # << >> /\ yielded[1] = << << >>, TRUE, 0 >>
       /\ << >> \in listed
       /\ Len(lines) >= 2 /\ lines[1] = RootLine /\ lines[2] = DotLine
  /\ (Produced /\ root_kind = "dir" /\ \E i \in 1..Len(patterns) : patterns[i] = << "*" >>) =>
       /\ tree = << >>
       /\ tree_str = RootLine \o << "\n" >> \o DotLine
  /\ (Produced /\ root_kind = "dir" /\ fs = EmptyFS /\ patterns = << >>) =>
       tree_str = RootLine \o << "\n" >> \o DotLine

\* A finished run over a root that is not empty, under the pattern "*"
C7_Witness ==
  /\ Produced
  /\ Entries(fs) # {}
  /\ patterns = << << "*" >> >>
  /\ Len(lines) = 2

\* The order the claim gives the children of a directory
C8_Key(p) == << p \notin fs.dirs, Lower(Name(p)) >>

\* C8: the yields are a depth-first pre-order: a directory comes before
\* its descendants, the surviving descendants of an entry come before the
\* entry's next sibling, and siblings come in ascending order of
\* (is not a directory, lowercased name).
C8_TraversalOrder ==
  LET n == Len(yielded) IN
  /\ \A i \in 1..n : yielded[i] = << Y(i), Y(i) = << >> \/ Y(i) \in fs.dirs, Len(Y(i)) >>
                     \/ (Y(i) = << >> /\ root_kind # "dir")
  /\ \A i, j \in 1..n : (i # j /\ IsPrefix(Y(i), Y(j))) => i < j
  /\ \A i, j, k \in 1..n : (i < j /\ j < k /\ IsPrefix(Y(i), Y(k))) => IsPrefix(Y(i), Y(j))
  /\ \A i, j \in 2..n :
       (i < j /\ Parent(Y(i)) = Parent(Y(j))) =>
         /\ ~KeyLess(C8_Key(Y(j)), C8_Key(Y(i)))
         /\ \A e \in Entries(fs) :
              (IsPrefix(Y(i), e) /\ Surviving(e)) => \E k \in 1..j - 1 : Y(k) = e

\* A finished walk that yielded a directory, something inside it, and then
\* a file beside the directory.
C8_Witness ==
  /\ Produced
  /\ \E i, k, j \in 2..Len(yielded) :
       /\ i < k /\ k < j
       /\ Parent(Y(i)) = Parent(Y(j))
       /\ Y(i) \in fs.dirs /\ Y(j) \in fs.files
       /\ Parent(Y(k)) = Y(i)

\* How often path p was yielded
YieldCount(p) == Cardinality({ i \in 1..Len(yielded) : Y(i) = p })

\* The walk has ended with an empty stack, having yielded the root once,
\* every surviving entry once and nothing else, and the tree holds exactly
\* the surviving entries.
C9_EndedExactlyOnce ==
  /\ pc = "done"
  /\ stack = << >>
  /\ YieldCount(<< >>) = 1
  /\ \A e \in Entries(fs) : YieldCount(e) = IF Surviving(e) THEN 1 ELSE 0
  /\ PathSet(tree) = { e \in Entries(fs) : Surviving(e) }

\* C9: with every directory readable the walk ends, with an empty stack,
\* having yielded the root once, every surviving entry once and nothing
\* else; the tree holds exactly the surviving entries.
C9_Termination == (pc = "walk" /\ unreadable = {}) ~> C9_EndedExactlyOnce

\* A finished walk of readable directories that kept some entries and
\* dropped others.
C9_Witness ==
  /\ Produced
  /\ unreadable = {}
  /\ Len(yielded) >= 3
  /\ \E e \in Entries(fs) : ~Surviving(e)

\* The position of path p among the printed paths
C6_Pos(p) == CHOOSE i \in 1..Len(printed) : printed[i] = p

\* p is the last of its sibling group: no sibling is printed after it.
C6_IsLast(p) ==
  \A i \in 2..Len(printed) :
    (Len(printed[i]) = Len(p) /\ Parent(printed[i]) = Parent(p)) => i <= C6_Pos(p)

\* The prefix the claim gives an entry: four blanks for ".", then four
\* blanks or a bar for each ancestor, from the top down.
C6_Prefix(p) ==
  LET pre[k \in 0..Len(p) - 1] ==
        IF k = 0 THEN PrefixBlank
        ELSE pre[k - 1] \o (IF C6_IsLast(SubSeq(p, 1, k)) THEN PrefixBlank ELSE PrefixBar)
  IN pre[Len(p) - 1]

C6_Line(p) ==
  C6_Prefix(p) \o (IF C6_IsLast(p) THEN ConnLast ELSE ConnMid) \o Name(p)

\* C6: the string is the lines joined by "\n" with no trailing newline;
\* line 1 is the root path and line 2 the "." line; every entry of the tree
\* is printed once, as prefix + connector + name, the connector and each
\* part of the prefix chosen by whether the entry, or its ancestor, is the
\* last of its sibling group; the descendants of an entry follow it and
\* precede its next sibling.  A root holding README.md and src/main.py
\* gives the five lines of the example.
C6_Rendering ==
  Produced =>
    /\ splitlines(tree_str) = lines
    /\ tree_str[Len(tree_str)] # "\n"
    /\ Cardinality({ i \in 1..Len(tree_str) : tree_str[i] = "\n" }) = Len(lines) - 1
    /\ Len(lines) = Len(printed) + 1
    /\ lines[1] = RootLine /\ lines[2] = DotLine /\ printed[1] = << >>
    /\ \A p \in PathSet(tree) :
         Cardinality({ i \in 2..Len(printed) : printed[i] = p }) = 1
    /\ \A i \in 2..Len(printed) :
         /\ printed[i] \in PathSet(tree)
         /\ lines[i + 1] = C6_Line(printed[i])
    /\ \A i, j \in 1..Len(printed) :
         (i # j /\ IsPrefix(printed[i], printed[j])) => i < j
    /\ \A i, j, k \in 1..Len(printed) :
         (i < j /\ j < k /\ IsPrefix(printed[i], printed[k]))
           => IsPrefix(printed[i], printed[j])
    /\ (fs = ReadmeFS /\ PathSet(tree) = Entries(fs)) =>
         lines = << RootLine,
                    DotLine,
                    PrefixBlank \o ConnMid \o n_src,
                    PrefixBlank \o PrefixBar \o ConnLast \o n_main_py,
                    PrefixBlank \o ConnLast \o n_README_md >>

\* The tree of the example was rendered: an entry that is not the last of
\* its group has a child.
C6_Witness ==
  /\ Produced
  /\ fs = ReadmeFS
  /\ Len(lines) = 5
  /\ \E i \in 2..Len(printed) : Len(printed[i]) = 2 /\ ~C6_IsLast(Parent(printed[i]))

\* C3: among the printed entries of one directory, every directory of the
\* filesystem comes before every file, and within each group the entries
\* are in ascending order of lowercased name; the children b.txt, A,
\* a.txt, B are printed as A, B, a.txt, b.txt.
C3_DirsFirst ==
  Produced =>
    /\ \A i, j \in 2..Len(printed) :
         (i < j /\ Len(printed[i]) = Len(printed[j])
                /\ Parent(printed[i]) = Parent(printed[j]))
           => ~KeyLess(C8_Key(printed[j]), C8_Key(printed[i]))
    /\ (fs = SiblingsFS /\ PathSet(tree) = Entries(fs)) =>
         printed = << << >>, << << "A" >> >>, << << "B" >> >>,
                      << n_a_txt >>, << n_b_txt >> >>

\* C4: a directory that cannot be listed does not make the build raise:
\* the run ends with a tree string, and the tree holds every surviving
\* entry that is not inside an unlistable directory.
C4_TraversalErrorsAbsorbed ==
  (pc = "done" /\ root_kind = "dir" /\ yielded # << >>) =>
    /\ \A i \in 1..Len(report) :
         report[i] \notin { "Traceback: PermissionError", "showerror: PermissionError" }
    /\ out # NoOutput
    /\ \A e \in Entries(fs) :
         (Surviving(e) /\ \A q \in ProperPrefixes(e) \cup { << >> } : q \notin unreadable)
           => e \in PathSet(tree)

\* C5: a root that does not exist, or is not a directory, ends the run in
\* a reported failure with no tree string; the command line exits with a
\* non-zero status.
C5_RootValidated ==
  (pc = "done" /\ root_kind \in { "missing", "file" }) =>
    /\ report # << >>
    /\ out = NoOutput
    /\ lines = << >>
    /\ entry = "cli" => (exit_code # NotExited /\ exit_code # << 0 >>)

\* The patterns of a GUI run before its exclude paths are added
C10_BasePatterns ==
  load_ignore_patterns(ignore_file) \o PatternLines(splitlines(extra_text))

\* The chosen exclude paths under the root, relative to it
C10_Excluded ==
  { SubSeq(exclude_paths[i], Len(root_parts) + 1, Len(exclude_paths[i])) :
      i \in { k \in 1..Len(exclude_paths) : IsPrefix(root_parts, exclude_paths[k]) } }

\* C10: with exclude paths below the root, the tree of a GUI run holds
\* exactly the entries that survive the other patterns and are neither an
\* excluded entry nor inside one; excluding build leaves src/build.
C10_ExclusionExact ==
  (Produced /\ entry = "gui" /\ << >> \notin C10_Excluded) =>
    PathSet(tree) =
      { e \in Entries(fs) :
          /\ SurvivingUnder(e, C10_BasePatterns)
          /\ ~\E x \in C10_Excluded : IsPrefix(x, e) }

====
